---- MODULE Spec2Model ----
(***************************************************************************)
(* A model of invenio-qa-tools: the requirement extractor                  *)
(* (api.build_package_requirements), the requirement aggregator            *)
(* (api.build_requirements_list) and the stdout suppression around the     *)
(* metadata generator (dependencies.generate_dist_info).                   *)
(*                                                                         *)
(* A Python dict is a set of <<key, value>> pairs with distinct keys; a    *)
(* Python list is a sequence; a Python str that the code takes apart is a  *)
(* sequence of one-character strings.                                      *)
(***************************************************************************)
EXTENDS Integers, Sequences, FiniteSets, TLC

VARIABLES
    pc,                 \* position of the running call
    package_list,       \* build_requirements_list: the caller's list object
    raise_on_confict,   \* build_requirements_list: the flag (spelled as in the code)
    requirements_list,  \* build_requirements_list: the local accumulator
    i,                  \* index of the next package of package_list
    package_name,       \* key popped from the current package
    deplist,            \* value popped from the current package
    j,                  \* index of the next entry of deplist
    error,              \* exception the call ended with, "none" otherwise
    result,             \* value the call returned
    calls,              \* calls of build_requirements_list made on package_list
    given,              \* history: package_list as the caller built it
    processed,          \* history: <<package, dep, ver>> entries folded by this call
    first_result,       \* history: what the first call returned
    package_metadata,   \* build_package_requirements: the metadata text
    kwargs,             \* build_package_requirements: the keyword arguments
    key,                \* _get_requirements: the group key asked for
    returned,           \* _get_requirements: what it returned
    sys_stdout,         \* sys.stdout
    sys_stderr,         \* sys.stderr
    old_stdout,         \* suppress_stdout: the stream it saved
    old_stderr,         \* suppress_stderr: the stream it saved
    suppress_output,    \* generate_dist_info: argument
    suppress_errors,    \* generate_dist_info: argument
    cwd,                \* the process's working directory
    stdout_before       \* history: sys.stdout when generate_dist_info was called

aggvars_but_pc == <<package_list, raise_on_confict, requirements_list, i,
                    package_name, deplist, j, result, calls, given, processed,
                    first_result>>

aggvars == <<pc, package_list, raise_on_confict, requirements_list, i,
             package_name, deplist, j, error, result, calls, given,
             processed, first_result>>

extvars == <<package_metadata, kwargs, key, returned>>

outvars == <<sys_stdout, sys_stderr, old_stdout, old_stderr, suppress_output,
             suppress_errors, cwd, stdout_before>>

vars == <<aggvars, extvars, outvars>>

----------------------------------------------------------------------------
(* Bounds of the model *)

MaxPackages == 2    \* packages in package_list
MaxRequirements == 3 \* requirement entries in the whole package_list
MaxCalls == 2       \* calls made on the same package_list object
MaxSubGroups == 3   \* sub-groups of one requirement group (_get_requirements)
MaxDocSubGroups == 3 \* sub-groups in a whole metadata document

----------------------------------------------------------------------------
(* Python dicts *)

EmptyDict == {}

Keys(d) == {p[1] : p \in d}

Get(d, k) == (CHOOSE p \in d : p[1] = k)[2]

Put(d, k, v) == {p \in d : p[1] # k} \cup {<<k, v>>}

Range(s) == {s[k] : k \in DOMAIN s}

NoDuplicates(s) == \A a, b \in DOMAIN s : a # b => s[a] # s[b]

----------------------------------------------------------------------------
(* build_requirements_list: inputs *)

\* The key the aggregator adds to every requirement object.
VersionSpecifiersKey == "version_specifiers"

\* Package names are arbitrary strings taken from metadata['name']; nothing
\* keeps a package from carrying the name the aggregator uses as its own key.
PackageNames == {"A", "B", VersionSpecifiersKey}

DepNames == {"foo", "bar"}

\* One requirement of a package: the single-key dict {dep_name: ver}.
Requirement(d, v) == {<<d, v>>}

\* Two specifiers for one dependency, one for another.
Requirements ==
    {Requirement("foo", ">=1.0"), Requirement("foo", ">=2.0"),
     Requirement("bar", "==1.0")}

SeqsUpTo(S, n) == UNION {[1..m -> S] : m \in 0..n}

\* One element of package_list: the single-key dict {package_name: deplist}.
PackageRequirements(n, dl) == {<<n, dl>>}

\* The ways to cut a sequence of m requirements into n consecutive deplists:
\* c[k] is the index of the last requirement of package k.
Cuts(n, m) ==
    {c \in [1..n -> 0..m] :
        /\ \A k \in 1..(n - 1) : c[k] <= c[k + 1]
        /\ c[n] = m}

CutList(ns, es, c) ==
    [k \in DOMAIN ns |->
        PackageRequirements(ns[k],
            SubSeq(es, (IF k = 1 THEN 0 ELSE c[k - 1]) + 1, c[k]))]

\* package_list is a list of at most MaxPackages packages that holds at
\* most MaxRequirements requirement entries in all.
IsPackageList(pl) ==
    \/ pl = <<>>
    \/ \E ns \in SeqsUpTo(PackageNames, MaxPackages) \ {<<>>} :
       \E es \in SeqsUpTo(Requirements, MaxRequirements) :
       \E c \in Cuts(Len(ns), Len(es)) :
          pl = CutList(ns, es, c)

----------------------------------------------------------------------------
(* build_requirements_list: the body of the inner loop *)

\* Lines 183-197: record ver for (dep_name, package_name).
RecordForPackage(rl, pkg, dep_name, ver, raising) ==
    IF dep_name \notin Keys(rl)
    THEN [raised |-> FALSE,
          rl |-> Put(rl, dep_name, Put(EmptyDict, pkg, <<ver>>))]
    ELSE IF pkg \notin Keys(Get(rl, dep_name))
    THEN [raised |-> FALSE,
          rl |-> Put(rl, dep_name, Put(Get(rl, dep_name), pkg, <<ver>>))]
    ELSE IF ~raising
    THEN [raised |-> FALSE,
          rl |-> Put(rl, dep_name,
                     Put(Get(rl, dep_name), pkg,
                         Append(Get(Get(rl, dep_name), pkg), ver)))]
    ELSE [raised |-> TRUE, rl |-> rl]

\* Mutant: the membership test of line 204 is lost and only the first
\* specifier of a dependency reaches 'version_specifiers'.
RecordVersionSpecifierFirstOnly(rl, dep_name, ver) ==
    LET obj == Get(rl, dep_name) IN
    IF VersionSpecifiersKey \notin Keys(obj)
    THEN Put(rl, dep_name, Put(obj, VersionSpecifiersKey, <<ver>>))
    ELSE rl

\* Lines 199-205: maintain the 'version_specifiers' list of dep_name.
RecordVersionSpecifier(rl, dep_name, ver) ==
    LET obj == Get(rl, dep_name)
        obj1 == IF VersionSpecifiersKey \notin Keys(obj)
                THEN Put(obj, VersionSpecifiersKey, <<ver>>)
                ELSE obj
        vs == Get(obj1, VersionSpecifiersKey)
        obj2 == IF ver \notin Range(vs)
                THEN Put(obj1, VersionSpecifiersKey, Append(vs, ver))
                ELSE obj1
    IN Put(rl, dep_name, obj2)

\* Lines 181-205: one iteration of `for dep in deplist`.
FoldDep(rl, pkg, dep, raising) ==
    LET dep_name == (CHOOSE p \in dep : TRUE)[1]
        ver == (CHOOSE p \in dep : TRUE)[2]
        r == RecordForPackage(rl, pkg, dep_name, ver, raising)
    IN IF r.raised
       THEN r
       ELSE [raised |-> FALSE, rl |-> RecordVersionSpecifier(r.rl, dep_name, ver)]

----------------------------------------------------------------------------
(* build_requirements_list: the call, one loop iteration per action *)

\* The variables of generate_dist_info while it is not the call under study.
StdoutUnused ==
    /\ sys_stdout = "tty"
    /\ sys_stderr = "tty"
    /\ old_stdout = "unset"
    /\ old_stderr = "unset"
    /\ suppress_output = TRUE
    /\ suppress_errors = FALSE
    /\ cwd = "start"
    /\ stdout_before = "tty"

\* The variables of build_package_requirements while it is not the call
\* under study.
ExtractorUnused ==
    /\ package_metadata = [text |-> "empty", value |-> EmptyDict]
    /\ kwargs = EmptyDict
    /\ key = ""
    /\ returned = [none |-> TRUE, items |-> {}]

InitAggregator ==
    /\ pc = "brl_idle"
    /\ IsPackageList(package_list)
    /\ raise_on_confict \in BOOLEAN
    /\ requirements_list = EmptyDict
    /\ i = 1
    /\ package_name = ""
    /\ deplist = <<>>
    /\ j = 1
    /\ error = "none"
    /\ result = EmptyDict
    /\ calls = 0
    /\ given = package_list
    /\ processed = <<>>
    /\ first_result = EmptyDict
    /\ ExtractorUnused
    /\ StdoutUnused

\* Line 175: the caller calls build_requirements_list(package_list, flag);
\* a later call is made on the same list object.
Call ==
    /\ UNCHANGED <<extvars, outvars>>
    /\ pc \in {"brl_idle", "brl_returned", "brl_raised"}
    /\ calls < MaxCalls
    /\ calls' = calls + 1
    /\ requirements_list' = EmptyDict
    /\ i' = 1
    /\ j' = 1
    /\ package_name' = ""
    /\ deplist' = <<>>
    /\ error' = "none"
    /\ result' = EmptyDict
    /\ processed' = <<>>
    /\ pc' = "brl_for_package"
    /\ UNCHANGED <<package_list, raise_on_confict, given, first_result>>

\* Lines 177-178: `for package in package_list: package.popitem()`.
\* popitem removes the pair from the caller's dict, and raises KeyError on
\* a dict that is already empty.
PopPackage ==
    /\ UNCHANGED <<extvars, outvars>>
    /\ pc = "brl_for_package"
    /\ i <= Len(package_list)
    /\ IF package_list[i] = EmptyDict
       THEN /\ pc' = "brl_raised"
            /\ error' = "KeyError"
            /\ UNCHANGED <<package_list, package_name, deplist, i, j>>
       ELSE LET item == CHOOSE p \in package_list[i] : TRUE IN
            /\ package_name' = item[1]
            /\ deplist' = item[2]
            /\ package_list' = [package_list EXCEPT ![i] = @ \ {item}]
            /\ j' = 1
            /\ IF Len(item[2]) = 0
               THEN i' = i + 1 /\ pc' = pc
               ELSE i' = i /\ pc' = "brl_for_dep"
            /\ UNCHANGED error
    /\ UNCHANGED <<raise_on_confict, requirements_list, result, calls, given,
                   processed, first_result>>

\* Lines 180-205: one iteration of `for dep in deplist`.
FoldRequirement ==
    /\ UNCHANGED <<extvars, outvars>>
    /\ pc = "brl_for_dep"
    /\ j <= Len(deplist)
    /\ LET r == FoldDep(requirements_list, package_name, deplist[j],
                        raise_on_confict)
           e == CHOOSE p \in deplist[j] : TRUE
       IN IF r.raised
          THEN /\ pc' = "brl_raised"
               /\ error' = "ValueError"
               /\ UNCHANGED <<requirements_list, i, j, processed>>
          ELSE /\ requirements_list' = r.rl
               /\ processed' = Append(processed, <<package_name, e[1], e[2]>>)
               /\ IF j = Len(deplist)
                  THEN i' = i + 1 /\ j' = 1 /\ pc' = "brl_for_package"
                  ELSE i' = i /\ j' = j + 1 /\ pc' = pc
               /\ UNCHANGED error
    /\ UNCHANGED <<package_list, raise_on_confict, package_name, deplist,
                   result, calls, given, first_result>>

\* Line 207: return requirements_list.
Return ==
    /\ UNCHANGED <<extvars, outvars>>
    /\ pc = "brl_for_package"
    /\ i > Len(package_list)
    /\ pc' = "brl_returned"
    /\ result' = requirements_list
    /\ first_result' = IF calls = 1 THEN requirements_list ELSE first_result
    /\ UNCHANGED <<package_list, raise_on_confict, requirements_list, i,
                   package_name, deplist, j, error, calls, given, processed>>

NextAggregator == Call \/ PopPackage \/ FoldRequirement \/ Return

SpecAggregator == InitAggregator /\ [][NextAggregator]_vars

----------------------------------------------------------------------------
(* Python strings the extractor takes apart *)

UpperCase == <<"A", "B", "C", "D", "E", "F", "G", "H", "I", "J", "K", "L", "M",
               "N", "O", "P", "Q", "R", "S", "T", "U", "V", "W", "X", "Y", "Z">>

LowerCase == <<"a", "b", "c", "d", "e", "f", "g", "h", "i", "j", "k", "l", "m",
               "n", "o", "p", "q", "r", "s", "t", "u", "v", "w", "x", "y", "z">>

\* str.lower() on one character.
Lower(ch) ==
    IF \E k \in DOMAIN UpperCase : UpperCase[k] = ch
    THEN LowerCase[CHOOSE k \in DOMAIN UpperCase : UpperCase[k] = ch]
    ELSE ch

Whitespace == {" ", "\t"}

Separators == {"-", "_", "."}

RECURSIVE SplitFrom(_, _, _)
\* str.split() with no argument: the maximal runs of non-whitespace.
\* cur is the token being read, toks the tokens read so far.
SplitFrom(str, cur, toks) ==
    IF str = <<>>
    THEN IF cur = <<>> THEN toks ELSE Append(toks, cur)
    ELSE IF Head(str) \in Whitespace
    THEN SplitFrom(Tail(str), <<>>,
                   IF cur = <<>> THEN toks ELSE Append(toks, cur))
    ELSE SplitFrom(Tail(str), Append(cur, Head(str)), toks)

split(str) == SplitFrom(str, <<>>, <<>>)

RECURSIVE CanonicalizeFrom(_, _)
\* re.sub(r"[-_.]+", "-", name).lower(): every run of "-", "_" and "."
\* becomes one "-", every other character is lowercased. A "-" ends out
\* only when the character before Head(name) was a separator.
CanonicalizeFrom(name, out) ==
    IF name = <<>>
    THEN out
    ELSE IF Head(name) \in Separators
    THEN CanonicalizeFrom(Tail(name),
             IF out # <<>> /\ out[Len(out)] = "-"
             THEN out
             ELSE Append(out, "-"))
    ELSE CanonicalizeFrom(Tail(name), Append(out, Lower(Head(name))))

canonicalize_name(name) == CanonicalizeFrom(name, <<>>)

----------------------------------------------------------------------------
(* build_package_requirements: inputs *)

\* The requirement-group keys, in the order lines 100-118 read them.
GroupKeys == <<"run_requires", "test_requires", "meta_requires",
               "build_requires", "dev_requires">>

\* Requirement strings: "A_b >1", "a-b >1" and "a.b >2" name one dependency
\* in three spellings; "ab" has one token and "a b c" has three.
ReqStrings ==
    { <<"A", "_", "b", " ", ">", "1">>,
      <<"a", "-", "b", " ", ">", "1">>,
      <<"a", ".", "b", " ", ">", "2">>,
      <<"a", "b">>,
      <<"a", " ", "b", " ", "c">> }

\* The 'requires' array of a sub-group: empty or one requirement string.
RequiresLists == {<<>>} \cup {<<str>> : str \in ReqStrings}

Extras == {"all", "docs"}

\* A sub-group {extra?: string, requires: [string, ...]}.
SubGroups ==
    {{<<"requires", rq>>} : rq \in RequiresLists}
    \cup {{<<"extra", x>>, <<"requires", rq>>} : x \in Extras, rq \in RequiresLists}

\* The sub-groups of whole documents: untagged or tagged 'all', requiring
\* one string.
DocSubGroups ==
    {sg \in SubGroups :
        \A p \in sg : /\ p[1] = "extra" => p[2] = "all"
                      /\ p[1] = "requires" => Len(p[2]) = 1}

\* Keyword arguments: none given, or one group switched off.
KwargsChoices ==
    {EmptyDict} \cup {{<<GroupKeys[k], FALSE>>} : k \in DOMAIN GroupKeys}

\* The sub-groups of group g, when the k-th sub-group sgs[k] of a document
\* belongs to group GroupKeys[ks[k]] and ks is nondecreasing.
GroupValue(ks, sgs, g) ==
    LET idx == {k \in DOMAIN sgs : ks[k] = g}
        lo == CHOOSE k \in idx : \A m \in idx : k <= m
    IN [n \in 1..Cardinality(idx) |-> sgs[lo + n - 1]]

\* The parsed metadata document: base holds 'name' or nothing.
DocumentOf(base, ks, sgs) ==
    base \cup {<<GroupKeys[g], GroupValue(ks, sgs, g)>> : g \in Range(ks)}

Nondecreasing(ks) == \A k \in 1..(Len(ks) - 1) : ks[k] <= ks[k + 1]

\* The metadata text, by what json.loads makes of it: "empty" is the empty
\* string, "invalid" a text that is not JSON, "json" the serialisation of
\* value.
IsPackageMetadata(pm) ==
    \/ pm = [text |-> "empty", value |-> EmptyDict]
    \/ pm = [text |-> "invalid", value |-> EmptyDict]
    \/ \E base \in {EmptyDict, {<<"name", "pkg">>}} :
       \E n \in 0..MaxDocSubGroups :
       \E ks \in [1..n -> DOMAIN GroupKeys] :
          /\ Nondecreasing(ks)
          /\ \E sgs \in [1..n -> DocSubGroups] :
                pm = [text |-> "json", value |-> DocumentOf(base, ks, sgs)]

----------------------------------------------------------------------------
(* build_package_requirements *)

\* dict.get(k, default)
DictGet(d, k, default) == IF k \in Keys(d) THEN Get(d, k) ELSE default

None == "None"

\* What _get_requirements hands back: None, or the items of a list or set.
ReturnNone == [none |-> TRUE, items |-> <<>>]

ReturnItems(l) == [none |-> FALSE, items |-> l]

RECURSIVE FirstAll(_)
\* Lines 83-87: the requires of the first sub-group tagged 'all'; the loop
\* ends without a return when there is none, and the function returns None.
FirstAll(requirements) ==
    IF requirements = <<>>
    THEN ReturnNone
    ELSE IF DictGet(Head(requirements), "extra", None) = "all"
    THEN ReturnItems(DictGet(Head(requirements), "requires", <<>>))
    ELSE FirstAll(Tail(requirements))

RECURSIVE UnionOfExtras(_)
\* Mutant: the commented-out lines 86-87, the union of every sub-group.
UnionOfExtras(requirements) ==
    IF requirements = <<>>
    THEN <<>>
    ELSE DictGet(Head(requirements), "requires", <<>>)
             \o UnionOfExtras(Tail(requirements))

get_requirements_union(k, metadata) ==
    ReturnItems(UnionOfExtras(DictGet(metadata, k, <<>>)))

\* Lines 79-91: _get_requirements(key, metadata).
get_requirements(k, metadata) ==
    LET requirements == DictGet(metadata, k, <<>>)
    IN IF Len(requirements) > 1
       THEN FirstAll(requirements)
       ELSE IF Len(requirements) > 0
       THEN ReturnItems(DictGet(requirements[1], "requires", <<>>))
       ELSE ReturnItems(<<>>)

RECURSIVE UnionGroups(_, _, _, _)
\* Lines 100-118 from the g-th block on: set.union(None) raises TypeError.
UnionGroups(g, metadata, kw, acc) ==
    IF g > Len(GroupKeys)
    THEN [raised |-> FALSE, set |-> acc]
    ELSE IF DictGet(kw, GroupKeys[g], TRUE)
    THEN LET r == get_requirements(GroupKeys[g], metadata)
         IN IF r.none
            THEN [raised |-> TRUE, set |-> acc]
            ELSE UnionGroups(g + 1, metadata, kw, acc \cup Range(r.items))
    ELSE UnionGroups(g + 1, metadata, kw, acc)

RECURSIVE ConvertFrom(_, _)
\* Lines 125-130: `dep, ver = string.split()` raises ValueError unless the
\* string has exactly two tokens.
ConvertFrom(strings, reqs) ==
    IF strings = <<>>
    THEN [raised |-> FALSE, reqs |-> reqs]
    ELSE LET toks == split(Head(strings))
         IN IF Len(toks) # 2
            THEN [raised |-> TRUE, reqs |-> reqs]
            ELSE ConvertFrom(Tail(strings),
                     Append(reqs,
                            Requirement(canonicalize_name(toks[1]), toks[2])))

\* The orders in which list(a_set) may enumerate a set.
Orderings(S) == {o \in [1..Cardinality(S) -> S] : Range(o) = S}

\* The variables of build_requirements_list while it is not the call under
\* study.
AggregatorUnused ==
    /\ package_list = <<>>
    /\ raise_on_confict = FALSE
    /\ requirements_list = EmptyDict
    /\ i = 1
    /\ package_name = ""
    /\ deplist = <<>>
    /\ j = 1
    /\ calls = 0
    /\ given = <<>>
    /\ processed = <<>>
    /\ first_result = EmptyDict

InitExtractor ==
    /\ pc = "bpr_idle"
    /\ IsPackageMetadata(package_metadata)
    /\ kwargs \in KwargsChoices
    /\ key = ""
    /\ returned = ReturnNone
    /\ error = "none"
    /\ result = EmptyDict
    /\ AggregatorUnused
    /\ StdoutUnused

\* Lines 93-132: one call of build_package_requirements.
BuildPackageRequirements ==
    /\ pc = "bpr_idle"
    /\ IF package_metadata.text = "empty"
       THEN /\ pc' = "bpr_raised"
            /\ error' = "ValueError: No package metadata provided"
            /\ UNCHANGED result
       ELSE IF package_metadata.text = "invalid"
       THEN /\ pc' = "bpr_raised"
            /\ error' = "JSONDecodeError"
            /\ UNCHANGED result
       ELSE LET metadata == package_metadata.value
                u == UnionGroups(1, metadata, kwargs, {})
            IN IF u.raised
               THEN /\ pc' = "bpr_raised"
                    /\ error' = "TypeError"
                    /\ UNCHANGED result
               ELSE IF "name" \notin Keys(metadata)
               THEN /\ pc' = "bpr_raised"
                    /\ error' = "KeyError"
                    /\ UNCHANGED result
               ELSE \E order \in Orderings(u.set) :
                       LET c == ConvertFrom(order, <<>>)
                       IN IF c.raised
                          THEN /\ pc' = "bpr_raised"
                               /\ error' = "ValueError: unpack"
                               /\ UNCHANGED result
                          ELSE /\ pc' = "bpr_returned"
                               /\ result' = {<<Get(metadata, "name"), c.reqs>>}
                               /\ UNCHANGED error
    /\ UNCHANGED <<package_metadata, kwargs, key, returned>>
    /\ UNCHANGED <<package_list, raise_on_confict, requirements_list, i,
                   package_name, deplist, j, calls, given, processed,
                   first_result>>
    /\ UNCHANGED outvars

NextExtractor == BuildPackageRequirements

SpecExtractor == InitExtractor /\ [][NextExtractor]_vars

----------------------------------------------------------------------------
(* _get_requirements on its own *)

\* The key asked for, and a document that holds under it a group of at most
\* MaxSubGroups sub-groups, or does not hold it.
InitGetRequirements ==
    /\ pc = "gr_idle"
    /\ key \in Range(GroupKeys)
    /\ \/ package_metadata = [text |-> "json", value |-> {<<"name", "pkg">>}]
       \/ \E requirements \in SeqsUpTo(SubGroups, MaxSubGroups) :
             package_metadata =
                [text |-> "json",
                 value |-> {<<"name", "pkg">>, <<key, requirements>>}]
    /\ kwargs = EmptyDict
    /\ returned = ReturnNone
    /\ error = "none"
    /\ result = EmptyDict
    /\ AggregatorUnused
    /\ StdoutUnused

\* Lines 79-91: one call of _get_requirements(key, metadata).
GetRequirements ==
    /\ pc = "gr_idle"
    /\ pc' = "gr_returned"
    /\ returned' = get_requirements(key, package_metadata.value)
    /\ UNCHANGED <<package_metadata, kwargs, key, error, result>>
    /\ UNCHANGED <<package_list, raise_on_confict, requirements_list, i,
                   package_name, deplist, j, calls, given, processed,
                   first_result>>
    /\ UNCHANGED outvars

NextGetRequirements == GetRequirements

SpecGetRequirements == InitGetRequirements /\ [][NextGetRequirements]_vars

----------------------------------------------------------------------------
(* Claims about build_package_requirements *)

\* The group metadata holds under key k.
GroupAt(metadata, k) == DictGet(metadata, k, <<>>)

\* The positions of the sub-groups tagged 'all'.
AllTagged(requirements) ==
    {k \in DOMAIN requirements :
        DictGet(requirements[k], "extra", None) = "all"}

\* The sub-group chosen for a group: its only sub-group, or among several
\* the first one tagged 'all'.
Chosen(requirements) ==
    IF Len(requirements) = 1
    THEN {1}
    ELSE {k \in AllTagged(requirements) :
             \A m \in AllTagged(requirements) : k <= m}

Enabled(kw, k) == DictGet(kw, k, TRUE)

\* The requirement strings of the chosen sub-groups of the enabled groups.
SelectedStrings(metadata, kw) ==
    UNION {UNION {Range(Get(GroupAt(metadata, k)[n], "requires")) :
                     n \in Chosen(GroupAt(metadata, k))} :
              k \in {x \in Range(GroupKeys) : Enabled(kw, x)}}

\* Every requirement string of the document.
AllStrings(metadata) ==
    UNION {UNION {Range(Get(GroupAt(metadata, k)[n], "requires")) :
                     n \in DOMAIN GroupAt(metadata, k)} :
              k \in Range(GroupKeys)}

TwoTokens(str) == Len(split(str)) = 2

\* The document is non-empty, parses and has a name.
ValidDocument ==
    package_metadata.text = "json" /\ "name" \in Keys(package_metadata.value)

ExtractorFinished == pc \in {"bpr_returned", "bpr_raised"}

\* C3: the returned list never holds two entries with the same canonical
\* name and the same specifier.
C3_NoDuplicateCanonicalPairs ==
    pc = "bpr_returned" =>
        NoDuplicates(Get(result, Get(package_metadata.value, "name")))

\* C6: when the group asked for has more than one sub-group and exactly one
\* of them is tagged 'all', what the group contributes is the requires of
\* that sub-group and nothing of the others, wherever it sits in the list.
C6_AllSubGroupAloneContributes ==
    pc = "gr_returned" =>
        LET requirements == GroupAt(package_metadata.value, key)
            alls == AllTagged(requirements)
        IN (Len(requirements) > 1 /\ Cardinality(alls) = 1) =>
              /\ ~returned.none
              /\ returned.items =
                     Get(requirements[CHOOSE k \in alls : TRUE], "requires")

\* A group of three sub-groups whose 'all' sub-group is not the first, and
\* whose other sub-groups require strings the 'all' sub-group does not.
C6_Witness ==
    /\ pc = "gr_returned"
    /\ LET requirements == GroupAt(package_metadata.value, key)
           alls == AllTagged(requirements)
       IN /\ Len(requirements) = 3
          /\ Cardinality(alls) = 1
          /\ 1 \notin alls
          /\ \A k \in DOMAIN requirements \ alls :
                /\ Get(requirements[k], "requires") # <<>>
                /\ Range(Get(requirements[k], "requires"))
                       \cap Range(returned.items) = {}
          /\ returned.items # <<>>

\* C7: the call fails with the malformed-requirement error if and only if
\* some selected requirement string does not split into exactly two tokens.
C7_MalformedIffSelectedStringMalformed ==
    (ExtractorFinished /\ ValidDocument) =>
        (error = "ValueError: unpack"
            <=> \E str \in SelectedStrings(package_metadata.value, kwargs) :
                   ~TwoTokens(str))

\* C9: the call returns for every document that is non-empty, parses, has a
\* name and whose requirement strings all have exactly two tokens.
C9_ReturnsForWellFormedDocument ==
    (ExtractorFinished /\ ValidDocument
        /\ \A str \in AllStrings(package_metadata.value) : TwoTokens(str)) =>
        pc = "bpr_returned"

\* Some enabled group has several sub-groups, none of them tagged 'all'.
SomeGroupWithoutAll ==
    \E k \in Range(GroupKeys) :
        /\ Enabled(kwargs, k)
        /\ Len(GroupAt(package_metadata.value, k)) > 1
        /\ AllTagged(GroupAt(package_metadata.value, k)) = {}

\* Apart from such groups the statements of C7 and C9 hold.
MalformedIffSelectedUnlessGroupWithoutAll ==
    ~SomeGroupWithoutAll => C7_MalformedIffSelectedStringMalformed

ReturnsUnlessGroupWithoutAll ==
    ~SomeGroupWithoutAll => C9_ReturnsForWellFormedDocument

----------------------------------------------------------------------------
(* build_requirements_list as a function of a list whose dicts are intact *)

RECURSIVE FoldDeplist(_, _, _, _)
\* Lines 180-205: `for dep in deplist`, stopping at the first raise.
FoldDeplist(rl, pkg, dl, raising) ==
    IF dl = <<>>
    THEN [raised |-> FALSE, rl |-> rl]
    ELSE LET r == FoldDep(rl, pkg, Head(dl), raising)
         IN IF r.raised THEN r ELSE FoldDeplist(r.rl, pkg, Tail(dl), raising)

RECURSIVE FoldPackages(_, _, _)
\* Lines 177-205: `for package in package_list`.
FoldPackages(rl, pl, raising) ==
    IF pl = <<>>
    THEN [raised |-> FALSE, rl |-> rl]
    ELSE LET item == CHOOSE p \in Head(pl) : TRUE
             r == FoldDeplist(rl, item[1], item[2], raising)
         IN IF r.raised THEN r ELSE FoldPackages(r.rl, Tail(pl), raising)

\* Lines 175-207.
build_requirements_list(pl, raising) == FoldPackages(EmptyDict, pl, raising)

----------------------------------------------------------------------------
(* Claims about build_requirements_list *)

Finished == pc \in {"brl_returned", "brl_raised"}

\* The specifiers among the entries es that package p gave for dependency d.
SpecifiersOf(es, p, d) == {e[3] : e \in {x \in Range(es) : x[1] = p /\ x[2] = d}}

\* The specifiers among the entries es given for dependency d by any package.
SpecifiersFor(es, d) == {e[3] : e \in {x \in Range(es) : x[2] = d}}

\* The 'version_specifiers' list of dependency d in rl.
VersionSpecifiers(rl, d) == Get(Get(rl, d), VersionSpecifiersKey)

\* Permutations of a sequence.
PermutationsOf(s) ==
    {[k \in DOMAIN s |-> s[f[k]]] : f \in Permutations(DOMAIN s)}

\* dependency -> set of its version_specifiers
SpecifierSets(rl) == {<<d, Range(VersionSpecifiers(rl, d))>> : d \in Keys(rl)}

\* The dependencies with more than one distinct specifier.
Conflicting(rl) ==
    {d \in Keys(rl) : Cardinality(Range(VersionSpecifiers(rl, d))) > 1}

\* C1: with raise_on_confict false, the list returned for each
\* (dependency, package) pair holds every distinct specifier the package gave
\* for the dependency, each exactly once.
C1_PairListsHoldEachSpecifierOnce ==
    (pc = "brl_returned" /\ calls = 1 /\ ~raise_on_confict) =>
        \A d \in Keys(result) :
            \A p \in Keys(Get(result, d)) \ {VersionSpecifiersKey} :
                LET l == Get(Get(result, d), p)
                IN /\ NoDuplicates(l)
                   /\ Range(l) = SpecifiersOf(processed, p, d)

\* Some package's own requirement list names a dependency twice with two
\* distinct specifiers.
PackageRepeatsWithDistinctSpecifier(pl) ==
    \E k \in DOMAIN pl :
        LET dl == (CHOOSE p \in pl[k] : TRUE)[2]
        IN \E a, b \in DOMAIN dl :
              LET ea == CHOOSE p \in dl[a] : TRUE
                  eb == CHOOSE p \in dl[b] : TRUE
              IN a < b /\ ea[1] = eb[1] /\ ea[2] # eb[2]

\* The packages of pl have distinct names, none of them the aggregator's key.
OrdinaryNames(pl) ==
    /\ \A k \in DOMAIN pl : VersionSpecifiersKey \notin Keys(pl[k])
    /\ \A a, b \in DOMAIN pl : a # b => Keys(pl[a]) # Keys(pl[b])

\* C2: with raise_on_confict true, the call raises the conflict error if and
\* only if one package names a dependency a second time with a specifier
\* distinct from the one recorded; an identical repeat and differing
\* specifiers of different packages do not raise.  (Stated for packages with
\* distinct names other than 'version_specifiers'.)
C2_RaisesIffDistinctRepeat ==
    (Finished /\ calls = 1 /\ raise_on_confict /\ OrdinaryNames(given)) =>
        (error = "ValueError" <=> PackageRepeatsWithDistinctSpecifier(given))

\* C4: the call leaves every dict of its input list as it was, so that a
\* second call on the same list returns what the first call returned.
C4_InputUnmodified ==
    /\ Finished => package_list = given
    /\ (Finished /\ calls = 2 /\ ~raise_on_confict) =>
           (pc = "brl_returned" /\ result = first_result)

\* C5: after every step of the fold, the 'version_specifiers' list of each
\* dependency has no duplicates and holds exactly the specifiers given for
\* that dependency by the entries folded so far, across all packages.
C5_VersionSpecifiersIsSetOfSeen ==
    \A d \in DepNames :
        IF SpecifiersFor(processed, d) = {}
        THEN d \notin Keys(requirements_list)
        ELSE /\ d \in Keys(requirements_list)
             /\ VersionSpecifiersKey \in Keys(Get(requirements_list, d))
             /\ NoDuplicates(VersionSpecifiers(requirements_list, d))
             /\ Range(VersionSpecifiers(requirements_list, d))
                    = SpecifiersFor(processed, d)

\* Unless a package is named 'version_specifiers', the statement of C5 holds.
VersionSpecifiersIsSetOfSeenForOtherNames ==
    (\A k \in DOMAIN given : VersionSpecifiersKey \notin Keys(given[k])) =>
        C5_VersionSpecifiersIsSetOfSeen

----------------------------------------------------------------------------
(* dependencies.generate_dist_info with its two context managers *)

\* What sys.stdout and sys.stderr may be bound to when the call is made.
Streams == {"tty", "pipe", "file"}

\* The stream of open(os.devnull, "w").
DevNull == "devnull"

InitGenerateDistInfo ==
    /\ pc = "gdi_idle"
    /\ sys_stdout \in Streams
    /\ sys_stderr \in Streams
    /\ old_stdout = "unset"
    /\ old_stderr = "unset"
    /\ suppress_output \in BOOLEAN
    /\ suppress_errors \in BOOLEAN
    /\ cwd = "start"
    /\ stdout_before = sys_stdout
    /\ error = "none"
    /\ result = EmptyDict
    /\ AggregatorUnused
    /\ ExtractorUnused

GdiFrame ==
    UNCHANGED <<aggvars_but_pc, extvars, suppress_output, suppress_errors,
                stdout_before>>

\* Line 78: os.chdir(repopath).
ChdirRepo ==
    /\ pc = "gdi_idle"
    /\ cwd' = "repopath"
    /\ pc' = "gdi_enter_stdout"
    /\ UNCHANGED <<sys_stdout, sys_stderr, old_stdout, old_stderr, error>>
    /\ GdiFrame

\* Lines 44-51, entered from line 79: suppress_stdout(suppress_output) up to
\* its yield. The redirection is under `if not suppress`.
EnterSuppressStdout ==
    /\ pc = "gdi_enter_stdout"
    /\ IF ~suppress_output
       THEN /\ old_stdout' = sys_stdout
            /\ sys_stdout' = DevNull
       ELSE UNCHANGED <<old_stdout, sys_stdout>>
    /\ pc' = "gdi_enter_stderr"
    /\ UNCHANGED <<sys_stderr, old_stderr, cwd, error>>
    /\ GdiFrame

\* Lines 59-66, entered from line 82: suppress_stderr(suppress_errors) up to
\* its yield.
EnterSuppressStderr ==
    /\ pc = "gdi_enter_stderr"
    /\ IF suppress_errors
       THEN /\ old_stderr' = sys_stderr
            /\ sys_stderr' = DevNull
       ELSE UNCHANGED <<old_stderr, sys_stderr>>
    /\ pc' = "gdi_generate"
    /\ UNCHANGED <<sys_stdout, old_stdout, cwd, error>>
    /\ GdiFrame

\* Line 83: prepare_metadata_for_build_wheel(repopath) runs, and returns or
\* raises.
Generate ==
    /\ pc = "gdi_generate"
    /\ \E e \in {"none", "BuildError"} : error' = e
    /\ pc' = "gdi_exit_stderr"
    /\ UNCHANGED <<sys_stdout, sys_stderr, old_stdout, old_stderr, cwd>>
    /\ GdiFrame

\* Lines 66-70: suppress_stderr after its yield; the finally clause runs
\* whether the body returned or raised.
ExitSuppressStderr ==
    /\ pc = "gdi_exit_stderr"
    /\ IF suppress_errors
       THEN sys_stderr' = old_stderr
       ELSE UNCHANGED sys_stderr
    /\ pc' = "gdi_exit_stdout"
    /\ UNCHANGED <<sys_stdout, old_stdout, old_stderr, cwd, error>>
    /\ GdiFrame

\* Lines 51-55: suppress_stdout after its yield. An exception of the body
\* leaves generate_dist_info here, before line 84.
ExitSuppressStdout ==
    /\ pc = "gdi_exit_stdout"
    /\ IF ~suppress_output
       THEN sys_stdout' = old_stdout
       ELSE UNCHANGED sys_stdout
    /\ pc' = IF error = "none" THEN "gdi_chdir_back" ELSE "gdi_raised"
    /\ UNCHANGED <<sys_stderr, old_stdout, old_stderr, cwd, error>>
    /\ GdiFrame

\* Lines 84-85: os.chdir(os.path.dirname(__file__)); return dist_info_dir.
ChdirBackAndReturn ==
    /\ pc = "gdi_chdir_back"
    /\ cwd' = "package_dir"
    /\ pc' = "gdi_returned"
    /\ UNCHANGED <<sys_stdout, sys_stderr, old_stdout, old_stderr, error>>
    /\ GdiFrame

NextGenerateDistInfo ==
    \/ ChdirRepo
    \/ EnterSuppressStdout
    \/ EnterSuppressStderr
    \/ Generate
    \/ ExitSuppressStderr
    \/ ExitSuppressStdout
    \/ ChdirBackAndReturn

SpecGenerateDistInfo == InitGenerateDistInfo /\ [][NextGenerateDistInfo]_vars

\* C10: with suppress_output true sys.stdout is the null device while the
\* metadata generator runs, with suppress_output false it is not redirected,
\* and once the suppress_stdout block has been left, normally or by an
\* exception, sys.stdout is the stream it was before.
C10_StdoutSuppressedThenRestored ==
    /\ (pc = "gdi_generate" /\ suppress_output) => sys_stdout = DevNull
    /\ (pc = "gdi_generate" /\ ~suppress_output) => sys_stdout = stdout_before
    /\ pc \in {"gdi_chdir_back", "gdi_raised", "gdi_returned"} =>
           sys_stdout = stdout_before

\* The part of C10 the code keeps: sys.stdout is restored on every exit.
StdoutRestoredOnExit ==
    pc \in {"gdi_chdir_back", "gdi_raised", "gdi_returned"} =>
        sys_stdout = stdout_before

----------------------------------------------------------------------------
(* The three entry points together *)

Init == InitAggregator \/ InitExtractor \/ InitGetRequirements
            \/ InitGenerateDistInfo

Next == NextAggregator \/ NextExtractor \/ NextGetRequirements
            \/ NextGenerateDistInfo

Spec == Init /\ [][Next]_vars

====
